---- MODULE Spec2Model ----
(***************************************************************************)
(* Mega Coder (src/mega_coder.py): the interactive menu loop, the bounded  *)
(* generate / run / fix / optimize / lint feedback loop, the repository    *)
(* option and the screen-monitoring loop.                                  *)
(*                                                                         *)
(* A text is a sequence of one-character strings.  The generative backend, *)
(* the child process, pylint, the repository ingestion and the OCR are the *)
(* environment: what they return (or that they raise) is chosen with \E.   *)
(***************************************************************************)
EXTENDS Integers, Sequences, FiniteSets, TLC

\* ------------------------------------------------------------------ bounds
\* Elapsed times of a child process are drawn from 0..MaxElapsed.
MaxElapsed == 2

\* ------------------------------------------------------- program constants
\* for attempt in range(1, 6): the end of the range (exclusive)
AttemptsEnd == 6
\* if attempt == 5
FinalAttempt == 5
\* the status of the synthetic result of a failed launch
LaunchFailedStatus == -1
\* An off-by-one bound of the lint loop (four rounds in place of three).
max_rounds_off_by_one == 3 + 1
\* def lint_and_fix_with_gemini(model, max_rounds=3)
max_rounds == 3

\* --------------------------------------------------------------- texts
\* The backquote character (a one-character string of the text alphabet).
BackQuote == "bq"
Fence == <<BackQuote, BackQuote, BackQuote>>
FencePython == Fence \o <<"p", "y", "t", "h", "o", "n">>
Whitespace == {" ", "\n"}

\* str.replace with an empty replacement: every non-overlapping occurrence, left to right.
RECURSIVE Remove(_, _)
Remove(s, pat) ==
    IF Len(s) < Len(pat) THEN s
    ELSE IF SubSeq(s, 1, Len(pat)) = pat
         THEN Remove(SubSeq(s, Len(pat) + 1, Len(s)), pat)
         ELSE <<Head(s)>> \o Remove(Tail(s), pat)

\* str.strip(): leading and trailing whitespace removed.
RECURSIVE LStrip(_)
LStrip(s) ==
    IF s # <<>> /\ Head(s) \in Whitespace THEN LStrip(Tail(s)) ELSE s

RECURSIVE RStrip(_)
RStrip(s) ==
    IF s # <<>> /\ s[Len(s)] \in Whitespace
    THEN RStrip(SubSeq(s, 1, Len(s) - 1)) ELSE s

Strip(s) == LStrip(RStrip(s))

\* The fence stripping applied to every backend response: the tagged fence
\* is removed first, then the bare fence, then the text is stripped.
StripFences(text) == Strip(Remove(Remove(text, FencePython), Fence))

\* corrupt_code_randomly(code): roll is the outcome of the 0.3 draw, idx the
\* value of random.randint(0, len(code) - 1) (0-based).
HookFires(code, roll) == roll /\ code # <<>>

corrupt_code_randomly(code, roll, idx) ==
    IF HookFires(code, roll)
    THEN SubSeq(code, 1, idx) \o <<"#">> \o SubSeq(code, idx + 2, Len(code))
    ELSE code

\* The indexes random.randint(0, len(code) - 1) can return (0 when the hook
\* does not read the index at all).
Indexes(code) == IF code = <<>> THEN {0} ELSE 0 .. (Len(code) - 1)

\* The file opened in append mode: the text is added to the old content.
append(old, text) == old \o text

\* with open("generated-code-gemini.py", "w") as f: f.write(text): the old
\* content is dropped, the file holds text.
overwrite(old, text) == text

\* Raw texts the generative backend returns.
Responses ==
    { <<"a", "b">>,
      FencePython \o <<"\n", "a", "b", "\n">> \o Fence,
      <<" ", "a", "#", "\n">>,
      <<" ">> }

\* Does pat occur in s (the Python substring test)?
Contains(s, pat) ==
    \E i \in 1 .. (Len(s) - Len(pat) + 1) : SubSeq(s, i, i + Len(pat) - 1) = pat

keywords ==
    { <<"d", "e", "f", " ">>, <<"c", "l", "a", "s", "s", " ">>,
      <<"i", "m", "p", "o", "r", "t", " ">>, <<"f", "r", "o", "m", " ">>,
      <<"r", "e", "t", "u", "r", "n", " ">>, <<"t", "r", "y", ":">>,
      <<"e", "x", "c", "e", "p", "t">>, <<"f", "o", "r", " ">>,
      <<"w", "h", "i", "l", "e", " ">>, <<"=">>, <<"{">>, <<"}">>, <<":">>,
      <<" ", " ", " ", " ">> }

is_code_text(text) == \E k \in keywords : Contains(text, k)

\* Texts the OCR extracts from one screenshot (before .strip()).
ScreenTexts ==
    { <<>>, <<" ">>, <<"h", "i">>, <<"x", "=", "1">>, <<"d", "e", "f", " ", "f">>,
      <<" ", "x", "=", "1", " ">> }

\* ------------------------------------------------------ child process
\* What subprocess.run reports of a launched child.
ChildExits == {0, 1}
ChildStdout == {"", "out"}
ChildStderr == {"", "Traceback"}

\* run_generated_code(): the tuple (returncode, stdout, stderr, elapsed_ms),
\* or the synthetic result when the launch raises.
run_generated_code(launched, returncode, stdout, stderr, elapsed_ms) ==
    IF launched
    THEN [rc |-> returncode, out |-> stdout, err |-> stderr, ms |-> elapsed_ms]
    ELSE [rc |-> LaunchFailedStatus, out |-> "", err |-> "exception", ms |-> 0]

RunResults ==
    { run_generated_code(l, c, o, e, t) :
        l \in BOOLEAN, c \in ChildExits, o \in ChildStdout,
        e \in ChildStderr, t \in 0 .. MaxElapsed }

NoResult == [rc |-> 0, out |-> "", err |-> "", ms |-> 0]

\* ------------------------------------------------------------------ state
VARIABLES
    pc,             \* where the program is: the next call it makes
    api_key,        \* what os.getenv gives for GEMINI_API_KEY
    choice,         \* main's variable choice
    file,           \* content of generated-code-gemini.py
    code,           \* main's variable code
    attempt,        \* main's loop variable attempt
    round_idx,      \* lint_and_fix_with_gemini's loop variable round_idx
    result,         \* what the last run_generated_code() returned
    before,         \* elapsed time of the run that exited 0
    previous_text,  \* handle_screen_option's previous_text
    polls,          \* the last two passes of the screen loop
    forwarded,      \* the text of the last request for tips (none: empty)
    msgs,           \* the messages the last step printed
    calls,          \* per session: how often each call was made
    successAt,      \* per session: the attempt whose run exited 0 (0: none)
    okElapsed,      \* per session: the elapsed time of that run
    outcome,        \* per session: how the session ended
    report,         \* per session: the message about the optimization
    lastResp,       \* the raw text of the last backend response
    lastOp,         \* the transform that wrote the file last
    hook,           \* what the corruption hook did to the content of the file
    optimized,      \* what optimize_code_with_gemini wrote
    lastGate,       \* the verdict of the last pylint run
    fileRun,        \* how the current content of the file ran, if it ran
    prior,          \* the code in the prompt of the last fix, optimize or lint-fix
    raisedAt        \* the call whose exception left main

vars ==
    << pc, api_key, choice, file, code, attempt, round_idx, result, before,
       previous_text, polls, forwarded, msgs, calls, successAt, okElapsed, outcome, report, lastResp,
       lastOp, hook, optimized, lastGate, fileRun, prior, raisedAt >>

NoCalls == [generate |-> 0, run |-> 0, fix |-> 0, optimize |-> 0, gate |-> 0, lintfix |-> 0, issues |-> 0]
NoHook == [fired |-> FALSE, idx |-> 0]

\* The locals of main and the per-session bookkeeping as they are when no
\* session is under way: every session assigns them before it reads them.
SessionReset ==
    /\ code' = <<>>
    /\ attempt' = 1
    /\ round_idx' = 1
    /\ result' = NoResult
    /\ before' = 0
    /\ calls' = NoCalls
    /\ successAt' = 0
    /\ okElapsed' = 0
    /\ outcome' = "none"
    /\ report' = "none"
    /\ lastResp' = <<>>
    /\ lastOp' = "none"
    /\ hook' = NoHook
    /\ optimized' = <<>>
    /\ lastGate' = "none"
    /\ fileRun' = "unrun"
    /\ prior' = <<>>

session == << calls, successAt, okElapsed, outcome, report, lastResp, lastOp, hook,
              optimized, lastGate, fileRun, prior >>
locals == << code, attempt, round_idx, result, before >>

\* What os.getenv can give: None (here "unset"), the empty string, a key.
ApiKeys == {"unset", "", "key"}

\* if not gemini_key
KeyMissing(key) == key = "unset" \/ key = ""

Init ==
    /\ pc = "start"
    /\ api_key \in ApiKeys
    /\ choice = <<>>
    /\ file = <<>>
    /\ code = <<>>
    /\ attempt = 1
    /\ round_idx = 1
    /\ result = NoResult
    /\ before = 0
    /\ previous_text = <<>>
    /\ polls = <<>>
    /\ forwarded = <<>>
    /\ msgs = <<>>
    /\ calls = NoCalls
    /\ successAt = 0
    /\ okElapsed = 0
    /\ outcome = "none"
    /\ report = "none"
    /\ lastResp = <<>>
    /\ lastOp = "none"
    /\ hook = NoHook
    /\ optimized = <<>>
    /\ lastGate = "none"
    /\ fileRun = "unrun"
    /\ prior = <<>>
    /\ raisedAt = "none"

\* configure_gemini() without the exit: after the error message the
\* program goes on to the menu.
ConfigureNoExit ==
    /\ pc = "start"
    /\ pc' = "menu"
    /\ msgs' = IF KeyMissing(api_key)
               THEN <<"ERROR: GEMINI_API_KEY missing from .env">>
               ELSE <<"Gemini configured successfully!">>
    /\ UNCHANGED << api_key, choice, file, locals, previous_text, polls, forwarded, session, raisedAt >>

\* configure_gemini(), then the model handle of main.
Configure ==
    /\ pc = "start"
    /\ IF ~ KeyMissing(api_key)
       THEN /\ pc' = "menu"
            /\ msgs' = <<"Gemini configured successfully!">>
       ELSE /\ pc' = "aborted"
            /\ msgs' = <<"ERROR: GEMINI_API_KEY missing from .env">>
    /\ UNCHANGED << api_key, choice, file, locals, previous_text, polls, forwarded, session, raisedAt >>

\* What the user types at the menu prompt.
Inputs == { <<"1">>, <<" ", "2">>, <<"3">>, <<"4", " ">>, <<"5">>, <<>> }

\* A dispatch whose last branch leaves the loop.
DispatchElseBreak(c) ==
    IF c = <<"1">> THEN "generate"
    ELSE IF c = <<"2">> THEN "gh_ingest"
    ELSE IF c = <<"3">> THEN "screen"
    ELSE "exited"

\* The branch of main's dispatch for a (stripped) choice.
Dispatch(c) ==
    IF c = <<"1">> THEN "generate"
    ELSE IF c = <<"2">> THEN "gh_ingest"
    ELSE IF c = <<"3">> THEN "screen"
    ELSE IF c = <<"4">> THEN "exited"
    ELSE "menu"

\* show_menu(), input(), and the dispatch on the choice up to the first
\* external call of the chosen operation.
Menu(typed) ==
    /\ pc = "menu"
    /\ choice' = Strip(typed)
    /\ pc' = Dispatch(choice')
    /\ msgs' = CASE Dispatch(choice') = "generate" -> <<"Generating program...">>
                 [] Dispatch(choice') = "gh_ingest" -> <<"Ingesting repository with GitIngest (please wait)...">>
                 [] Dispatch(choice') = "screen" -> <<"Press CTRL+C to stop.">>
                 [] Dispatch(choice') = "exited" -> <<"Goodbye!">>
                 [] OTHER -> <<"Invalid choice. Try again.">>
    /\ SessionReset
    /\ UNCHANGED << api_key, file, previous_text, polls, forwarded, raisedAt >>

Count(what) == [calls EXCEPT ![what] = @ + 1]

\* A generation that returns the text as it was before the corruption hook.
returned_before_hook(stripped, written) == stripped

\* What generate_program_with_gemini returns: the text it has written.
returned(stripped, written) == written

\* code = generate_program_with_gemini(description, model), the backend
\* answering r.
Generate(r, roll, idx) ==
    /\ pc = "generate"
    /\ LET stripped == StripFences(r)
           written == corrupt_code_randomly(stripped, roll, idx)
       IN /\ file' = overwrite(file, written)
          /\ code' = returned(stripped, written)
          /\ hook' = [fired |-> HookFires(stripped, roll),
                      idx |-> IF HookFires(stripped, roll) THEN idx ELSE 0]
          /\ msgs' = <<"Requesting initial code from Gemini 2.5 Flash-Lite...">>
                     \o (IF HookFires(stripped, roll)
                         THEN <<"[DEBUG] Random corruption injected into generated code.">>
                         ELSE <<>>)
                     \o <<"[SUCCESS] Code written to generated-code-gemini.py">>
    /\ attempt' = 1
    /\ pc' = "run"
    /\ calls' = Count("generate")
    /\ lastResp' = r
    /\ lastOp' = "generate"
    /\ fileRun' = "unrun"
    /\ UNCHANGED << api_key, choice, prior, round_idx, result, before, previous_text, polls, forwarded,
                    successAt, okElapsed, outcome, report, optimized, lastGate, raisedAt >>

\* The branch without the test of the final attempt: a fix follows every
\* failed run.
AfterRunNoCap(rc, n) ==
    IF rc = 0 THEN "optimize" ELSE "fix"

\* The branch with the test of the final attempt made before the test of
\* the exit status.
AfterRunCapFirst(rc, n) ==
    IF n = FinalAttempt THEN "menu"
    ELSE IF rc = 0 THEN "optimize"
    ELSE "fix"

\* The branch with only a positive exit status taken as a failure.
AfterRunPositiveFails(rc, n) ==
    IF rc <= 0 THEN "optimize"
    ELSE IF n = FinalAttempt THEN "menu"
    ELSE "fix"

\* The branch main takes on the result of the run of one attempt.
AfterRun(rc, n) ==
    IF rc = 0 THEN "optimize"
    ELSE IF n = FinalAttempt THEN "menu"
    ELSE "fix"

\* One pass of the attempt loop up to its next external call: the run, the
\* messages, and the branch on the exit status and the attempt number.
Run(rr) ==
    /\ pc = "run"
    /\ result' = rr
    /\ before' = rr.ms
    /\ calls' = Count("run")
    /\ fileRun' = IF rr.rc = 0 THEN "ok" ELSE "failed"
    /\ pc' = AfterRun(rr.rc, attempt)
    /\ successAt' = IF rr.rc = 0 THEN attempt ELSE successAt
    /\ okElapsed' = IF rr.rc = 0 THEN rr.ms ELSE okElapsed
    /\ outcome' = IF AfterRun(rr.rc, attempt) = "menu" THEN "exhausted" ELSE outcome
    /\ msgs' = CASE AfterRun(rr.rc, attempt) = "optimize" ->
                       <<"Program executed successfully!", rr.out>>
                  [] AfterRun(rr.rc, attempt) = "menu" ->
                       <<"Program failed!", rr.err,
                         "Sorry master, I have failed you. Cannot create a working program.">>
                  [] OTHER -> <<"Program failed!", rr.err>>
    /\ UNCHANGED << api_key, choice, prior, file, code, attempt, round_idx, previous_text, polls, forwarded,
                    report, lastResp, lastOp, hook, optimized, lastGate, raisedAt >>

\* The text of a fix with the corruption of the generation applied to it.
fixed_corrupted(r) == corrupt_code_randomly(StripFences(r), TRUE, 0)

\* fix_code_with_gemini: fixed, the text it writes and returns.
fixed(r) == StripFences(r)

\* code = fix_code_with_gemini(model, code, err), the backend answering r,
\* and the end of the loop body.
Fix(r) ==
    /\ pc = "fix"
    /\ file' = overwrite(file, fixed(r))
    /\ code' = fixed(r)
    /\ attempt' = attempt + 1
    /\ pc' = IF attempt + 1 < AttemptsEnd THEN "run" ELSE "menu"
    /\ calls' = Count("fix")
    /\ lastResp' = r
    /\ prior' = code
    /\ lastOp' = "fix"
    /\ hook' = NoHook
    /\ fileRun' = "unrun"
    /\ msgs' = <<>>
    /\ UNCHANGED << api_key, choice, round_idx, result, before, previous_text, polls, forwarded, successAt, okElapsed,
                    outcome, report, optimized, lastGate, raisedAt >>

\* optimize_code_with_gemini(model, code), the backend answering r; main
\* drops the returned text.
Optimize(r) ==
    /\ pc = "optimize"
    /\ file' = overwrite(file, StripFences(r))
    /\ optimized' = StripFences(r)
    /\ pc' = "rerun"
    /\ calls' = Count("optimize")
    /\ lastResp' = r
    /\ prior' = code
    /\ lastOp' = "optimize"
    /\ hook' = NoHook
    /\ fileRun' = "unrun"
    /\ msgs' = <<>>
    /\ UNCHANGED << api_key, choice, locals, previous_text, polls, forwarded, successAt, okElapsed, outcome, report,
                    lastGate, raisedAt >>

\* The comparison with a tie counted as an improvement.
ImprovedOrEqual(rc2, after, was) == rc2 = 0 /\ after <= was

\* if rc2 == 0 and after < before
Improved(rc2, after, was) == rc2 = 0 /\ after < was

\* The run after the optimization with a rollback: the text of main's
\* variable code is written back when no improvement is reported.
RerunWithRollback(rr) ==
    /\ pc = "rerun"
    /\ result' = rr
    /\ calls' = Count("run")
    /\ file' = IF Improved(rr.rc, rr.ms, before) THEN file ELSE code
    /\ fileRun' = IF rr.rc = 0 THEN "ok" ELSE "failed"
    /\ report' = IF Improved(rr.rc, rr.ms, before) THEN "improved" ELSE "noimprove"
    /\ msgs' = (IF Improved(rr.rc, rr.ms, before)
                THEN <<"Runtime optimized!">>
                ELSE <<"Optimization didn't improve speed.">>)
               \o <<"Starting pylint lint check...">>
    /\ round_idx' = 1
    /\ pc' = "lint_check"
    /\ UNCHANGED << api_key, choice, prior, code, attempt, before, previous_text, polls, forwarded, successAt,
                    okElapsed, outcome, lastResp, lastOp, hook, optimized,
                    lastGate, raisedAt >>

\* The run after the optimization, the message about it, and the entry of
\* lint_and_fix_with_gemini up to its first pylint run.
Rerun(rr) ==
    /\ pc = "rerun"
    /\ result' = rr
    /\ calls' = Count("run")
    /\ fileRun' = IF rr.rc = 0 THEN "ok" ELSE "failed"
    /\ report' = IF Improved(rr.rc, rr.ms, before) THEN "improved" ELSE "noimprove"
    /\ msgs' = (IF Improved(rr.rc, rr.ms, before)
                THEN <<"Runtime optimized!">>
                ELSE <<"Optimization didn't improve speed.">>)
               \o <<"Starting pylint lint check...">>
    /\ round_idx' = 1
    /\ pc' = "lint_check"
    /\ UNCHANGED << api_key, choice, prior, file, code, attempt, before, previous_text, polls, forwarded, successAt, okElapsed,
                    outcome, lastResp, lastOp, hook, optimized, lastGate, raisedAt >>

\* Exit statuses of the pylint process.
PylintExits == {0, 4, 20}

\* The test of the exit status inverted.
run_pylint_inverted(returncode) == returncode = 0

\* run_pylint_on_file(): has_issues, from the exit status of pylint.
run_pylint_on_file(returncode) == returncode # 0

\* The check of one round of the lint loop and the branch on it.
LintCheck(returncode) ==
    /\ pc = "lint_check"
    /\ LET has_issues == run_pylint_on_file(returncode) IN
       /\ lastGate' = IF returncode = 0 THEN "clean" ELSE "issues"
       /\ calls' = [calls EXCEPT !.gate = @ + 1,
                                 !.issues = IF has_issues THEN @ + 1 ELSE @]
       /\ pc' = IF has_issues THEN "lint_fix" ELSE "menu"
       /\ outcome' = IF has_issues THEN outcome ELSE "lint_clean"
       /\ msgs' = IF has_issues
                  THEN <<"Lint issues detected. Fixing...">>
                  ELSE <<"Amazing. No lint errors/warnings.">>
    /\ UNCHANGED << api_key, choice, prior, file, locals, previous_text, polls, forwarded, successAt, okElapsed, report,
                    lastResp, lastOp, hook, optimized, fileRun, raisedAt >>

\* The rest of a round with issues: the file is read, the backend answers r,
\* the file is written, and the loop goes on or ends.
LintFix(r) ==
    /\ pc = "lint_fix"
    /\ file' = overwrite(file, StripFences(r))
    /\ calls' = Count("lintfix")
    /\ lastResp' = r
    /\ prior' = file
    /\ lastOp' = "lintfix"
    /\ fileRun' = "unrun"
    /\ msgs' = <<>>
    /\ IF round_idx = max_rounds
       THEN /\ pc' = "lint_final"
            /\ round_idx' = round_idx
       ELSE /\ pc' = "lint_check"
            /\ round_idx' = round_idx + 1
    /\ hook' = NoHook
    /\ UNCHANGED << api_key, choice, code, attempt, result, before, previous_text, polls, forwarded,
                    successAt, okElapsed, outcome, report, optimized, lastGate, raisedAt >>

\* The pylint run after the last round and the final message.
LintFinal(returncode) ==
    /\ pc = "lint_final"
    /\ LET still_issues == run_pylint_on_file(returncode) IN
       /\ lastGate' = IF returncode = 0 THEN "clean" ELSE "issues"
       /\ outcome' = IF still_issues THEN "lint_issues" ELSE "lint_clean"
       /\ msgs' = IF still_issues
                  THEN <<"There are still lint errors/warnings.">>
                  ELSE <<"Amazing. No lint errors/warnings.">>
    /\ calls' = Count("gate")
    /\ pc' = "menu"
    /\ UNCHANGED << api_key, choice, prior, file, locals, previous_text, polls, forwarded, successAt, okElapsed, report,
                    lastResp, lastOp, hook, optimized, fileRun, raisedAt >>

\* The calls of the develop operation that main makes outside any try.
BackendCallOf(at) ==
    CASE at = "generate" -> "generate"
      [] at = "fix" -> "fix"
      [] at = "optimize" -> "optimize"
      [] at = "lint_fix" -> "lintfix"

\* model.generate_content (or response.text) raises in generate, fix,
\* optimize or lint-fix: nothing catches it, main ends with the traceback.
BackendRaises ==
    /\ pc \in {"generate", "fix", "optimize", "lint_fix"}
    /\ calls' = Count(BackendCallOf(pc))
    /\ raisedAt' = pc
    /\ pc' = "crashed"
    /\ msgs' = <<"Traceback (most recent call last)">>
    /\ UNCHANGED << api_key, choice, prior, file, locals, previous_text, polls, forwarded, successAt, okElapsed, outcome,
                    report, lastResp, lastOp, hook, optimized, lastGate, fileRun >>

\* subprocess.run raises in run_pylint_on_file: nothing catches it.
LintLaunchRaises ==
    /\ pc \in {"lint_check", "lint_final"}
    /\ calls' = Count("gate")
    /\ raisedAt' = pc
    /\ pc' = "crashed"
    /\ msgs' = <<"Traceback (most recent call last)">>
    /\ UNCHANGED << api_key, choice, prior, file, locals, previous_text, polls, forwarded, successAt, okElapsed, outcome,
                    report, lastResp, lastOp, hook, optimized, lastGate, fileRun >>

\* handle_github_option(): repo_str = ingest(repo_url) inside the try.
GhIngest(ok) ==
    /\ pc = "gh_ingest"
    /\ IF ok
       THEN /\ pc' = "gh_analyze"
            /\ msgs' = <<"Repository ingested successfully!">>
       ELSE /\ pc' = "menu"
            /\ msgs' = <<"[ERROR] Failed to ingest repository or call Gemini">>
    /\ UNCHANGED << api_key, choice, file, locals, previous_text, polls, forwarded, session, raisedAt >>

\* handle_github_option(): pro_model.generate_content(prompt) inside the try.
GhAnalyze(ok) ==
    /\ pc = "gh_analyze"
    /\ pc' = "menu"
    /\ msgs' = IF ok
               THEN <<"===== GEMINI 2.5 PRO RESPONSE =====", "Request completed.">>
               ELSE <<"[ERROR] Failed to ingest repository or call Gemini">>
    /\ UNCHANGED << api_key, choice, file, locals, previous_text, polls, forwarded, session, raisedAt >>

\* The test without the comparison with the previous text.
IsNewCodeNoDedup(extracted, previous) ==
    extracted # <<>> /\ is_code_text(extracted)

\* The test that decides whether an extraction is sent to the model.
IsNewCode(extracted, previous) ==
    extracted # <<>> /\ extracted # previous /\ is_code_text(extracted)

\* The previous text set inside the try, after the tips were printed: a
\* failed request leaves it as it was.
remembered_on_success(extracted, previous, ok) ==
    IF ok THEN extracted ELSE previous

\* previous_text = extracted, after the try/except of the request.
remembered(extracted, previous, ok) == extracted

\* The last pass of the loop kept with the one before it.
Note(pass) ==
    (IF polls = <<>> THEN <<>> ELSE <<polls[Len(polls)]>>) \o <<pass>>

\* One pass of the loop of handle_screen_option(): the OCR returns text,
\* the backend answers (ok) or raises.
ScreenPoll(text, ok) ==
    /\ pc = "screen"
    /\ LET extracted == Strip(text)
           send == IsNewCode(extracted, previous_text)
       IN /\ previous_text' = IF send
                              THEN remembered(extracted, previous_text, ok)
                              ELSE previous_text
          /\ msgs' = IF send
                     THEN <<"Detected NEW code on screen. Sending to Gemini 2.5 Flash-Lite...">>
                          \o (IF ok THEN <<"====== CODE IMPROVEMENT TIPS ======">>
                                    ELSE <<"[ERROR] Gemini API error">>)
                     ELSE <<>>
          /\ forwarded' = IF send THEN extracted ELSE forwarded
          /\ polls' = Note([text |-> extracted, sent |-> send,
                            ok |-> (~ send \/ ok), had |-> forwarded])
    /\ pc' = "screen"
    /\ UNCHANGED << api_key, choice, file, locals, session, raisedAt >>

\* The capture or the OCR raises: the loop catches KeyboardInterrupt only.
ScreenCaptureRaises ==
    /\ pc = "screen"
    /\ pc' = "crashed"
    /\ raisedAt' = "screen"
    /\ msgs' = <<"Traceback (most recent call last)">>
    /\ UNCHANGED << api_key, choice, file, locals, previous_text, polls, forwarded, session >>

\* except KeyboardInterrupt
ScreenInterrupt ==
    /\ pc = "screen"
    /\ pc' = "menu"
    /\ previous_text' = <<>>
    /\ polls' = <<>>
    /\ forwarded' = <<>>
    /\ msgs' = <<"Stopped screen monitoring.">>
    /\ UNCHANGED << api_key, choice, file, locals, session, raisedAt >>

Next ==
    \/ Configure
    \/ \E typed \in Inputs : Menu(typed)
    \/ \E r \in Responses, roll \in BOOLEAN :
           \E idx \in Indexes(StripFences(r)) : Generate(r, roll, idx)
    \/ \E rr \in RunResults : Run(rr)
    \/ \E r \in Responses : Fix(r)
    \/ \E r \in Responses : Optimize(r)
    \/ \E rr \in RunResults : Rerun(rr)
    \/ \E returncode \in PylintExits : LintCheck(returncode)
    \/ \E r \in Responses : LintFix(r)
    \/ \E returncode \in PylintExits : LintFinal(returncode)
    \/ BackendRaises
    \/ LintLaunchRaises
    \/ \E ok \in BOOLEAN : GhIngest(ok)
    \/ \E ok \in BOOLEAN : GhAnalyze(ok)
    \/ \E text \in ScreenTexts, ok \in BOOLEAN : ScreenPoll(text, ok)
    \/ ScreenCaptureRaises
    \/ ScreenInterrupt

Spec == Init /\ [][Next]_vars

\* ------------------------------------------------------------- properties
HasMsg(m) == \E i \in 1 .. Len(msgs) : msgs[i] = m

Exhaustion == "Sorry master, I have failed you. Cannot create a working program."

\* C1: in a develop session in which every run of the artifact exits
\* non-zero there are at most 5 runs and 4 fix requests, one fix request
\* after each failed attempt but the fifth, never an optimize request, a
\* re-run, a pylint run or a lint-fix request; and when such a session is
\* over, it made exactly 5 runs and 4 fix requests and printed the
\* exhaustion message.
C1_AllRunsFail ==
    (calls.run >= 1 /\ successAt = 0) =>
        /\ calls.run <= 5
        /\ calls.fix <= 4
        /\ calls.optimize = 0 /\ calls.gate = 0 /\ calls.lintfix = 0
        /\ pc = "run" => calls.fix = calls.run
        /\ pc = "fix" => calls.fix = calls.run - 1
        /\ pc = "menu" =>
              /\ calls.run = 5
              /\ calls.fix = 4
              /\ outcome = "exhausted"
              /\ HasMsg(Exhaustion)

C1_Witness ==
    /\ pc = "menu"
    /\ successAt = 0
    /\ calls.run = 5
    /\ calls.fix = 4
    /\ outcome = "exhausted"

\* C2: when the run of attempt k is the first to exit 0 (k in 1..5), k-1 fix
\* requests were made before it and none is made afterwards, the call
\* that follows that run is the one optimize request of the session, and
\* the lint loop is entered after the run that follows the optimization.
C2_SuccessAtK ==
    successAt # 0 =>
        /\ successAt \in 1 .. 5
        /\ calls.fix = successAt - 1
        /\ pc \in {"optimize", "rerun", "lint_check", "lint_fix", "lint_final",
                    "menu", "crashed"}
        /\ pc = "optimize" => (calls.optimize = 0 /\ calls.run = successAt)
        /\ pc # "optimize" => calls.optimize = 1
        /\ pc = "rerun" => calls.run = successAt
        /\ pc \in {"lint_check", "lint_fix", "lint_final", "menu"} =>
              calls.run = successAt + 1
        /\ pc = "menu" => calls.gate >= 1

C2_Witness ==
    /\ successAt = 3
    /\ calls.fix = 2
    /\ calls.optimize = 1
    /\ pc = "lint_check"
    /\ calls.gate = 0

\* C3: one execution of the lint loop runs pylint at most 4 times, makes
\* one lint-fix request for each round whose check reported issues (at most
\* 3), and makes none after a check that reported no issues: a clean check
\* ends the loop.
C3_LintBudget ==
    /\ calls.gate <= 4
    /\ calls.lintfix <= 3
    /\ pc = "lint_fix" => (lastGate = "issues" /\ calls.lintfix = calls.issues - 1)
    /\ pc # "lint_fix" => calls.lintfix = calls.issues
    /\ lastGate = "clean" => (pc = "menu" /\ outcome = "lint_clean")
    /\ pc = "lint_final" => (calls.gate = 3 /\ calls.lintfix = 3)

C3_Witness ==
    /\ pc = "menu"
    /\ calls.gate = 4
    /\ calls.lintfix = 3
    /\ outcome = "lint_issues"

\* C4: after the optimization the improvement is reported exactly when the
\* re-run exits 0 and took strictly less time than the run that succeeded
\* before the optimization; a tie, a slower re-run and a re-run with a
\* non-zero exit are reported as no improvement.
C4_StrictImprovement ==
    report # "none" =>
        /\ report = "improved" <=> (result.rc = 0 /\ result.ms < okElapsed)
        /\ report = "noimprove" <=> (result.rc # 0 \/ result.ms >= okElapsed)
        /\ (pc = "lint_check" /\ calls.gate = 0) =>
              /\ HasMsg("Runtime optimized!") <=> report = "improved"
              /\ HasMsg("Optimization didn't improve speed.") <=> report = "noimprove"

C4_Witness ==
    /\ report = "noimprove"
    /\ result.rc = 0
    /\ okElapsed > 0
    /\ result.ms = okElapsed

\* C5: a raised error of an external-service call of the develop operation
\* (the backend in generate, fix, optimize or lint-fix, the launch of
\* pylint) never ends the program: it is caught and the menu goes on.
C5_FailuresCaught ==
    ~ ( /\ pc = "crashed"
        /\ raisedAt \in {"generate", "fix", "optimize", "lint_fix",
                          "lint_check", "lint_final"} )

\* C6: a failed launch of the child process gives the synthetic result
\* (status -1, empty stdout, the exception text as stderr, elapsed 0), and
\* in the attempt loop it is handled as a failed run: the failure message,
\* then a fix request before the fifth attempt and the exhaustion message
\* at the fifth.
C6_LaunchFailureIsFailedRun ==
    /\ result.err = "exception" =>
          (result.rc = -1 /\ result.out = "" /\ result.ms = 0)
    /\ ( /\ result.rc = -1
         /\ fileRun = "failed"
         /\ calls.optimize = 0
         /\ pc # "crashed" ) =>
          /\ successAt = 0
          /\ HasMsg("Program failed!")
          /\ HasMsg("exception")
          /\ attempt < 5 => pc = "fix"
          /\ attempt = 5 => (pc = "menu" /\ outcome = "exhausted" /\ HasMsg(Exhaustion))

C6_Witness ==
    /\ result = [rc |-> -1, out |-> "", err |-> "exception", ms |-> 0]
    /\ fileRun = "failed"
    /\ attempt = 2
    /\ pc = "fix"

\* The positions (1-based) at which two texts of the same length differ.
Differences(a, b) == { i \in 1 .. Len(a) : a[i] # b[i] }

\* C7: when the corruption hook fires on a generated text c, the text
\* written has the length of c, differs from c in exactly one position, and
\* has the marker # at that position.
C7_ExactlyOneCharDiffers ==
    (lastOp = "generate" /\ hook.fired) =>
        LET c == StripFences(lastResp) IN
        /\ Len(file) = Len(c)
        /\ Cardinality(Differences(file, c)) = 1
        /\ file[hook.idx + 1] = "#"

\* C8: in a develop session whose first run fails and whose run after one
\* fix exits 0, the artifact persisted when the session ends is one whose
\* execution exited with code 0 (every launch of the child process having
\* succeeded, and the optimization having changed the text).
C8_FinalArtifactExitsZero ==
    ( /\ pc = "menu"
      /\ outcome \in {"lint_clean", "lint_issues"}
      /\ successAt = 2
      /\ calls.fix = 1
      /\ result.err # "exception"
      /\ optimized # code ) => fileRun = "ok"

\* Has the optimize call returned / how many lint-fix calls have returned.
OptimizeReturned == calls.optimize = 1 /\ raisedAt # "optimize"
LintFixesReturned == calls.lintfix - (IF raisedAt = "lint_fix" THEN 1 ELSE 0)

\* C9: once optimize has returned, the file holds the optimize output until
\* a lint-fix writes it, whatever the re-run reports, and from the first
\* lint-fix on it holds the output of the last lint-fix, also when the lint
\* loop ends with issues remaining: nothing is ever written back.
C9_NoRollback ==
    /\ (OptimizeReturned /\ LintFixesReturned = 0) => file = optimized
    /\ (OptimizeReturned /\ LintFixesReturned > 0) =>
          (lastOp = "lintfix" /\ file = StripFences(lastResp))
    /\ outcome = "lint_issues" =>
          (LintFixesReturned = 3 /\ lastOp = "lintfix" /\ file = StripFences(lastResp))

C9_Witness ==
    /\ pc = "lint_check"
    /\ calls.gate = 0
    /\ report = "noimprove"
    /\ result.rc # 0
    /\ file = optimized
    /\ file # code

\* C10: the corruption hook alters the file only at the generate call:
\* after every fix, optimize and lint-fix the file is the fence-stripped
\* response of the backend, so that from the second attempt on the text
\* that is run is the stripped response.
C10_HookOnlyAtGenerate ==
    /\ lastOp \in {"fix", "optimize", "lintfix"} =>
          (file = StripFences(lastResp) /\ ~ hook.fired)
    /\ (pc = "run" /\ attempt > 1) => file = StripFences(lastResp)
    /\ (lastOp # "none" /\ file # StripFences(lastResp)) =>
          (lastOp = "generate" /\ hook.fired /\ attempt = 1 /\ calls.run <= 1)

C10_Witness ==
    /\ pc = "run"
    /\ attempt = 2
    /\ lastOp = "fix"
    /\ file = <<"a", "#">>
    /\ file = StripFences(lastResp)

\* Has a run of the artifact just exited non-zero, no step taken since?
RunJustFailed ==
    /\ fileRun = "failed"
    /\ \/ pc = "fix"
       \/ pc = "menu" /\ outcome = "exhausted"
       \/ pc = "lint_check" /\ calls.gate = 0

\* C11: every failed run of the artifact (in the attempt loop and after
\* the optimization) and every pylint run with issues is followed at once
\* by a printed message that tells that failure: a failed run is not
\* reported with the message of an outcome that is no failure.
C11_FailuresReported ==
    /\ (RunJustFailed /\ result.rc = 1) => HasMsg("Program failed!")
    /\ pc = "lint_fix" => HasMsg("Lint issues detected. Fixing...")
    /\ outcome = "lint_issues" => HasMsg("There are still lint errors/warnings.")

\* C12: with the API credential absent at startup the program aborts in
\* the configuration: the menu is never shown, no input is read, and no
\* generate, run, lint, ingest or OCR call is made.
C12_AbortWithoutKey ==
    KeyMissing(api_key) =>
        /\ pc \in {"start", "aborted"}
        /\ choice = <<>>
        /\ calls = NoCalls
        /\ file = <<>>
        /\ lastOp = "none"
        /\ raisedAt = "none"
        /\ pc = "aborted" => msgs = <<"ERROR: GEMINI_API_KEY missing from .env">>

C12_Witness ==
    /\ api_key = ""
    /\ pc = "aborted"

\* C13: in the screen loop a text is sent to the model only if it is not
\* empty and looks like code, of two consecutive passes with the same
\* extraction the second sends nothing, a failed request leaves the loop
\* running, and the loop is left for the menu by the interrupt.
C13_ScreenForwarding ==
    /\ \A i \in 1 .. Len(polls) :
          polls[i].sent => (polls[i].text # <<>> /\ is_code_text(polls[i].text))
    /\ (Len(polls) = 2 /\ polls[1].text = polls[2].text) => ~ polls[2].sent
    /\ HasMsg("[ERROR] Gemini API error") => pc = "screen"
    /\ polls # <<>> => pc \in {"screen", "crashed"}
    /\ HasMsg("Stopped screen monitoring.") => (pc = "menu" /\ polls = <<>>)

C13_Witness ==
    /\ pc = "screen"
    /\ Len(polls) = 2
    /\ polls[1].sent
    /\ polls[1].text = <<"x", "=", "1">>
    /\ polls[2].text = <<"x", "=", "1">>
    /\ ~ polls[2].sent

\* How many fix calls have returned.
FixesReturned == calls.fix - (IF raisedAt = "fix" THEN 1 ELSE 0)

\* C14: the attempt counter stays within 1..5 and the lint round counter
\* within 1..3; the attempt counter is one more than the fixes made (one
\* per failed run), the round counter one more than the lint-fixes made
\* (one per round with issues) up to its cap; a failed fifth attempt and a
\* third lint-fix end their loops: no sixth run attempt, no fourth lint-fix.
C14_CountersInRange ==
    /\ attempt \in 1 .. 5
    /\ round_idx \in 1 .. 3
    /\ attempt = FixesReturned + 1
    /\ calls.run <= attempt + (IF successAt # 0 THEN 1 ELSE 0)
    /\ round_idx = (IF LintFixesReturned >= 3 THEN 3 ELSE LintFixesReturned + 1)
    /\ calls.lintfix <= 3
    /\ (attempt = 5 /\ successAt = 0 /\ fileRun = "failed") =>
          (pc = "menu" /\ outcome = "exhausted")
    /\ LintFixesReturned = 3 => pc \in {"lint_final", "menu", "crashed"}

C14_Witness ==
    /\ attempt = 5
    /\ successAt = 5
    /\ round_idx = 3
    /\ pc = "lint_final"

\* What the most recent transform that returned gave as its whole output.
LastOutput ==
    CASE lastOp = "generate" ->
             corrupt_code_randomly(StripFences(lastResp), hook.fired, hook.idx)
      [] lastOp = "fix" -> StripFences(lastResp)
      [] lastOp = "optimize" -> optimized
      [] lastOp = "lintfix" -> StripFences(lastResp)
      [] OTHER -> file

\* C15: at every run of the artifact and at every pylint run the file
\* holds exactly the whole output of the most recent transform that
\* returned (generate, fix, optimize or lint-fix): no older content, and
\* no mixture of old and new content.
C15_WholesaleOverwrite ==
    pc \in {"run", "rerun", "lint_check", "lint_final"} =>
        /\ lastOp \in {"generate", "fix", "optimize", "lintfix"}
        /\ file = LastOutput
        /\ lastOp \in {"generate", "fix"} => file = code

C15_Witness ==
    /\ pc = "lint_check"
    /\ lastOp = "lintfix"
    /\ file = <<"a", "#">>
    /\ optimized = <<"a", "b">>
    /\ code = <<>>

\* C16: the lint loop ends with the success message exactly when the most
\* recent pylint run (of a round, or the final one) reported no issues,
\* and with the still-has-issues message exactly when three lint-fixes
\* were made and the final pylint run reported issues; in both cases the
\* session is over and the menu comes next.
C16_LintOutcome ==
    /\ outcome \in {"lint_clean", "lint_issues"} => pc = "menu"
    /\ (pc = "menu" /\ calls.gate > 0) =>
          /\ outcome \in {"lint_clean", "lint_issues"}
          /\ outcome = "lint_clean" <=> lastGate = "clean"
          /\ outcome = "lint_issues" <=>
                (lastGate = "issues" /\ calls.lintfix = 3 /\ calls.gate = 4)
          /\ HasMsg("Amazing. No lint errors/warnings.") <=> outcome = "lint_clean"
          /\ HasMsg("There are still lint errors/warnings.") <=> outcome = "lint_issues"

C16_Witness ==
    /\ pc = "menu"
    /\ outcome = "lint_clean"
    /\ calls.gate = 4
    /\ calls.lintfix = 3

\* The steps of a develop session whose external call returns.
SessionStep ==
    \/ /\ pc = "generate"
       /\ \E r \in Responses, roll \in BOOLEAN :
              \E idx \in Indexes(StripFences(r)) : Generate(r, roll, idx)
    \/ \E rr \in RunResults : Run(rr)
    \/ \E r \in Responses : Fix(r)
    \/ \E r \in Responses : Optimize(r)
    \/ \E rr \in RunResults : Rerun(rr)
    \/ \E returncode \in PylintExits : LintCheck(returncode)
    \/ \E r \in Responses : LintFix(r)
    \/ \E returncode \in PylintExits : LintFinal(returncode)

\* The program with every external call returning (none raises).
NextReturning ==
    \/ Configure
    \/ \E typed \in Inputs : Menu(typed)
    \/ SessionStep
    \/ \E ok \in BOOLEAN : GhIngest(ok)
    \/ \E ok \in BOOLEAN : GhAnalyze(ok)
    \/ \E text \in ScreenTexts, ok \in BOOLEAN : ScreenPoll(text, ok)
    \/ ScreenInterrupt

\* main is sequential and blocking: when the call it waits for returns, the
\* next step of the session is taken.
SpecReturning == Init /\ [][NextReturning]_vars /\ WF_vars(SessionStep)

BackendCalls == calls.generate + calls.fix + calls.optimize + calls.lintfix

SessionOver ==
    pc = "menu" /\ outcome \in {"exhausted", "lint_clean", "lint_issues"}

DevelopStates ==
    {"generate", "run", "fix", "optimize", "rerun", "lint_check", "lint_fix",
     "lint_final"}

InSession == pc \in DevelopStates

\* The calls a session has made so far.
Measure == BackendCalls + calls.run + calls.gate

\* C17: with every external call returning, a develop session uses at most
\* 6 runs of the artifact, 9 backend calls (1 generate, 4 fix, 1 optimize,
\* 3 lint-fix) and 4 pylint runs, and it terminates with one of the
\* outcomes exhausted, lint-clean, lint-still-has-issues at the menu: a
\* session under way can always take a step, every step of it makes one
\* more call of a total that is at most 19, and it is left only for the
\* menu, with its outcome.
C17_SessionTerminates ==
    /\ [] ( /\ calls.run <= 6
            /\ calls.generate <= 1 /\ calls.fix <= 4
            /\ calls.optimize <= 1 /\ calls.lintfix <= 3
            /\ BackendCalls <= 9
            /\ calls.gate <= 4
            /\ Measure <= 19
            /\ InSession => ENABLED SessionStep
            /\ (pc = "menu" /\ calls.generate = 1) => SessionOver )
    /\ [][ InSession =>
             /\ Measure' = Measure + 1
             /\ InSession' \/ SessionOver' ]_vars
    /\ InSession ~> SessionOver

C17_Witness ==
    /\ SessionOver
    /\ outcome = "lint_issues"
    /\ calls.run = 6
    /\ BackendCalls = 9
    /\ calls.gate = 4

RepositoryStates == {"gh_ingest", "gh_analyze"}

Choices == { <<"1">>, <<"2">>, <<"3">>, <<"4">> }

\* C18: at the menu prompt the stripped choice 1 starts the develop
\* operation, 2 the repository operation, 3 the screen operation; the loop
\* is left exactly by choice 4 at the prompt; any other choice prints the
\* invalid-choice error, starts no operation, leaves the file and the call
\* counts untouched and prompts again. An operation under way is left only
\* for the menu prompt (or, when a call raises in develop or in the screen
\* capture, by the traceback that is the subject of C5), never for another
\* operation.
C18_MenuDispatch ==
    [][ /\ pc = "menu" =>
            /\ choice' = <<"1">> => pc' = "generate"
            /\ choice' = <<"2">> => pc' = "gh_ingest"
            /\ choice' = <<"3">> => pc' = "screen"
            /\ choice' = <<"4">> => pc' = "exited"
            /\ choice' \notin Choices =>
                   /\ pc' = "menu"
                   /\ msgs' = <<"Invalid choice. Try again.">>
                   /\ file' = file
                   /\ calls' = NoCalls
                   /\ forwarded' = forwarded
        /\ pc' = "exited" => (pc = "menu" /\ choice' = <<"4">>)
        /\ pc \in DevelopStates => pc' \in DevelopStates \cup {"menu", "crashed"}
        /\ pc \in RepositoryStates => pc' \in RepositoryStates \cup {"menu"}
        /\ pc = "screen" => pc' \in {"screen", "menu", "crashed"}
        /\ pc' = "crashed" => raisedAt' = pc
        /\ pc \in {"exited", "crashed", "aborted"} => pc' = pc
      ]_vars

C18_Witness ==
    /\ pc = "menu"
    /\ choice = <<"5">>
    /\ msgs = <<"Invalid choice. Try again.">>
    /\ file # <<>>

\* C19: every transform is given the current content of the file as its
\* prior code. The code in the prompt of a fix or of the optimization is
\* the content of the file, which has just been run (the corruption
\* injected at the generation included); the code in the prompt of a
\* lint-fix is the content of the file that pylint has just checked, also
\* after an optimization whose text main's variable code never received.
C19_TransformsFedCurrentFile ==
    /\ [] ( /\ pc \in {"fix", "optimize"} => (code = file /\ fileRun # "unrun")
            /\ pc = "fix" => fileRun = "failed"
            /\ pc = "optimize" => fileRun = "ok"
            /\ pc = "lint_fix" => lastGate = "issues" )
    /\ [][ /\ (pc \in {"fix", "optimize", "lint_fix"} /\ pc' # "crashed") =>
                 prior' = file
           /\ pc \in {"run", "rerun", "lint_check", "lint_final"} =>
                 file' = file
         ]_vars

\* After a fix, a lint-fix was fed the optimized text, which main's code
\* never received.
C19_Witness ==
    /\ lastOp = "lintfix"
    /\ calls.fix >= 1
    /\ prior = optimized
    /\ prior # code

LastPoll == polls[Len(polls)]

====
